---- MODULE Spec2Model ----
(***************************************************************************)
(* Model of the COREP Own Funds assistant backend:                         *)
(*   backend/app/validation.py  numeric coercion and deterministic         *)
(*                              reconciliation of the raw model output     *)
(*   backend/app/rag.py         tolerant JSON parse of the completion and  *)
(*                              the retrieval -> model -> validation       *)
(*                              pipeline with the citation merge           *)
(*   backend/app/main.py        the analyze_scenario endpoint              *)
(*                                                                         *)
(* Python floats are modelled as exact rationals <<num, den>> in lowest    *)
(* terms with den > 0; Python's None is the empty tuple.  A Python str     *)
(* that the code inspects character by character is a sequence of          *)
(* one-character strings; a str that is only compared or copied is a       *)
(* TLA+ string.                                                            *)
(***************************************************************************)
EXTENDS Integers, Sequences, FiniteSets, TLC

VARIABLES
    pc,                 \* position of the run
    value, coerced,     \* argument and result of _to_optional_float
    content, parsed,    \* completion text and outcome of _parse_json
    retrieved,          \* Documents returned by retriever.invoke
    retrieved_docs,     \* RetrievedDoc list built by generate_corep_assessment
    context_text,       \* grounding block handed to _call_llm
    raw_model_output,   \* mapping decoded from the completion
    reconciled,         \* the CorepResult as validate_corep_result returned it
    corep_result,       \* the CorepResult object (mutated by the citation merge)
    stages,             \* pipeline stages completed so far, in order
    response,           \* what analyze_scenario gave its caller
    handed,             \* number of responses given to the caller
    store,              \* number of documents in the persisted collection
    inv                 \* locals of each concurrent invocation

storeVars == <<store, inv>>

vars == <<pc, value, coerced, content, parsed, retrieved, retrieved_docs,
          context_text, raw_model_output, reconciled, corep_result, stages,
          response, handed, store, inv>>

(***************************************************************************)
(* Bounds of the model.                                                    *)
(***************************************************************************)
MaxStrLen == 4
MaxList == 2
MaxDocs == 2
MaxText == 5
NumInvocations == 2

(***************************************************************************)
(* Floats as exact rationals.                                              *)
(***************************************************************************)
None == <<>>

Abs(n) == IF n < 0 THEN -n ELSE n

RECURSIVE GCD(_, _)
GCD(a, b) == IF b = 0 THEN a ELSE GCD(b, a % b)

Rat(n, d) ==
    LET g == GCD(Abs(n), Abs(d))
        s == IF d < 0 THEN -1 ELSE 1
    IN  <<(s * n) \div g, (s * d) \div g>>

RLess(a, b) == a[1] * b[2] < b[1] * a[2]

LCM(a, b) == (a \div GCD(a, b)) * b

RSub(a, b) ==
    LET d == LCM(a[2], b[2])
    IN  Rat(a[1] * (d \div a[2]) - b[1] * (d \div b[2]), d)

RAbs(a) == <<Abs(a[1]), a[2]>>

RDiv(a, b) == Rat(a[1] * b[2], a[2] * b[1])

Pow10(k) == CASE k = 0 -> 1 [] k = 1 -> 10 [] k = 2 -> 100 [] k = 3 -> 1000
              [] k = 4 -> 10000 [] k = 5 -> 100000 [] OTHER -> 1000000

(***************************************************************************)
(* Untyped JSON values as decoded by json.loads.  t is the Python type,    *)
(* n the numeric payload (int, float or bool), s the str payload.          *)
(***************************************************************************)
Absent == [t |-> "absent", n |-> None, s |-> <<>>]
Null == [t |-> "null", n |-> None, s |-> <<>>]
Num(n, d) == [t |-> "number", n |-> Rat(n, d), s |-> <<>>]
Bool(b) == [t |-> "bool", n |-> IF b THEN <<1, 1>> ELSE <<0, 1>>, s |-> <<>>]
Str(s) == [t |-> "str", n |-> None, s |-> s]
List == [t |-> "list", n |-> None, s |-> <<>>]
Object == [t |-> "dict", n |-> None, s |-> <<>>]

(***************************************************************************)
(* str methods used by _to_optional_float.                                 *)
(***************************************************************************)
Whitespace == {" "}
Digits == {"0", "1", "2", "3", "4", "5", "6", "7", "8", "9"}

DigitVal(c) == CASE c = "0" -> 0 [] c = "1" -> 1 [] c = "2" -> 2 [] c = "3" -> 3
                 [] c = "4" -> 4 [] c = "5" -> 5 [] c = "6" -> 6 [] c = "7" -> 7
                 [] c = "8" -> 8 [] OTHER -> 9

RECURSIVE LStrip(_)
LStrip(s) == IF s # <<>> /\ Head(s) \in Whitespace THEN LStrip(Tail(s)) ELSE s

RECURSIVE RStrip(_)
RStrip(s) ==
    IF s # <<>> /\ s[Len(s)] \in Whitespace
    THEN RStrip(SubSeq(s, 1, Len(s) - 1)) ELSE s

\* str.strip()
strip(s) == RStrip(LStrip(s))

\* str.replace(old, ""): every occurrence of the character is removed
replace(s, old) ==
    LET Keep(c) == c # old IN SelectSeq(s, Keep)

Count(s, c) == Cardinality({i \in 1..Len(s) : s[i] = c})

RECURSIVE DigitsToInt(_)
DigitsToInt(s) ==
    IF s = <<>> THEN 0
    ELSE 10 * DigitsToInt(SubSeq(s, 1, Len(s) - 1)) + DigitVal(s[Len(s)])

ValueError == <<"ValueError">>

\* float(str): surrounding whitespace is ignored, then an optional sign and
\* a decimal literal with at least one digit; anything else raises
\* ValueError.
float(s) ==
    LET t == strip(s)
        neg == t # <<>> /\ Head(t) = "-"
        body == IF neg THEN Tail(t) ELSE t
        ok == /\ \A i \in 1..Len(body) : body[i] \in Digits \cup {"."}
              /\ Count(body, ".") <= 1
              /\ \E i \in 1..Len(body) : body[i] \in Digits
        point == IF Count(body, ".") = 0 THEN Len(body) + 1
                 ELSE CHOOSE i \in 1..Len(body) : body[i] = "."
        frac == IF Count(body, ".") = 0 THEN 0 ELSE Len(body) - point
        mag == DigitsToInt(replace(body, "."))
    IN  IF ~ok THEN ValueError
        ELSE Rat(IF neg THEN -mag ELSE mag, Pow10(frac))

(***************************************************************************)
(* validation.py: _to_optional_float                                       *)
(***************************************************************************)
_to_optional_float(v) ==
    IF v.t \in {"absent", "null"} THEN None
    ELSE IF v.t \in {"number", "bool"} THEN v.n   \* bool is a subclass of int
    ELSE IF v.t = "str" THEN
        LET stripped == replace(strip(v.s), "%")
        IN  IF stripped = <<>> THEN None
            ELSE IF float(stripped) = ValueError THEN None
            ELSE float(stripped)
    ELSE None

(***************************************************************************)
(* Python built-ins used on the decoded values.  Text values carry         *)
(* [t, b, s]: the type, the bool payload and the str payload.              *)
(***************************************************************************)
TAbsent == [t |-> "absent", b |-> FALSE, s |-> ""]
TNull == [t |-> "null", b |-> FALSE, s |-> ""]
TStr(s) == [t |-> "str", b |-> FALSE, s |-> s]
TBool(b) == [t |-> "bool", b |-> b, s |-> ""]

\* truth value of an object, as tested by `x or default`
Truthy(v) ==
    CASE v.t = "str" -> Len(v.s) > 0
      [] v.t = "bool" -> v.b
      [] v.t = "list" -> v.l # <<>>
      [] OTHER -> FALSE

\* str(x) of a decoded scalar
str(v) ==
    CASE v.t = "str" -> v.s
      [] v.t = "bool" -> IF v.b THEN "True" ELSE "False"
      [] OTHER -> "None"

\* str(x) where the result is inspected character by character
str_chars(v) ==
    CASE v.t = "str" -> v.s
      [] v.t = "bool" -> IF v.b THEN <<"T", "r", "u", "e">>
                         ELSE <<"F", "a", "l", "s", "e">>
      [] OTHER -> <<"N", "o", "n", "e">>

Range(q) == {q[i] : i \in 1..Len(q)}

\* f"{x:.4f}": the integer part and four decimals by long division, the
\* last one rounded to nearest, ties to even
Fmt4(x) ==
    LET n == Abs(x[1])
        d == x[2]
        r1 == (n % d) * 10
        r2 == (r1 % d) * 10
        r3 == (r2 % d) * 10
        r4 == (r3 % d) * 10
        t == (n \div d) * 10000 + (r1 \div d) * 1000 + (r2 \div d) * 100
                 + (r3 \div d) * 10 + (r4 \div d)
        rest == r4 % d
        q == IF 2 * rest > d \/ (2 * rest = d /\ t % 2 = 1) THEN t + 1 ELSE t
        ip == q \div 10000
        fp == q % 10000
        pad == IF fp < 10 THEN "000" ELSE IF fp < 100 THEN "00"
               ELSE IF fp < 1000 THEN "0" ELSE ""
    IN  (IF x[1] < 0 THEN "-" ELSE "") \o ToString(ip) \o "." \o pad \o ToString(fp)

(***************************************************************************)
(* validation.py: validate_corep_result                                    *)
(***************************************************************************)
MIN_CET1_RATIO == Rat(45, 1000)

TEMPLATE_PLACEHOLDER == "COREP Own Funds (prototype)"

EXPLANATION_PLACEHOLDER ==
    "Explanation not provided by the model. This is an automatically generated prototype output."

DISCREPANCY_WARNING ==
    "Model-proposed CET1_ratio differed from deterministic CET1/RWA. The deterministic value has been used instead."

ThresholdWarning(cet1_ratio) ==
    "CET1_ratio of " \o Fmt4(cet1_ratio) \o " is below the minimum requirement of "
        \o Fmt4(MIN_CET1_RATIO) \o " (4.5%)."

\* abs(a - b) > 1e-6
DiffersBy1e6(a, b) ==
    LET d == RAbs(RSub(a, b)) IN d[1] > d[2] \div 1000000

\* initial.get(key): an absent key reads as None
Get(v) == IF v.t = "absent" THEN [v EXCEPT !.t = "null"] ELSE v

\* line 29
TemplateName(initial) ==
    IF Truthy(Get(initial.template_name)) THEN str(initial.template_name)
    ELSE TEMPLATE_PLACEHOLDER

\* lines 30-35: the default applies only when the key is absent
Explanation(initial) ==
    IF initial.explanation.t = "absent" THEN EXPLANATION_PLACEHOLDER
    ELSE str(initial.explanation)

DeterministicMissing_NonPositiveRWA(cet1, at1, tier2, rwa) ==
    LET pairs == <<<<"CET1", cet1>>, <<"AT1", at1>>, <<"Tier2", tier2>>, <<"RWA", rwa>>>>
        IsNone(p) == p[2] = None \/ (p[1] = "RWA" /\ ~RLess(<<0, 1>>, p[2]))
        sel == SelectSeq(pairs, IsNone)
    IN  [i \in 1..Len(sel) |-> sel[i][1]]

\* lines 43-46
DeterministicMissing(cet1, at1, tier2, rwa) ==
    LET pairs == <<<<"CET1", cet1>>, <<"AT1", at1>>, <<"Tier2", tier2>>, <<"RWA", rwa>>>>
        IsNone(p) == p[2] = None
        sel == SelectSeq(pairs, IsNone)
    IN  [i \in 1..Len(sel) |-> sel[i][1]]

Derivable_NonZero(cet1, rwa) == cet1 # None /\ rwa # None /\ rwa[1] # 0

\* line 51
Derivable(cet1, rwa) == cet1 # None /\ rwa # None /\ RLess(<<0, 1>>, rwa)

DeriveRatio_TrustsModel(cet1, rwa, cet1_ratio_model) ==
    IF cet1_ratio_model # None THEN cet1_ratio_model
    ELSE IF Derivable(cet1, rwa) THEN RDiv(cet1, rwa) ELSE cet1_ratio_model

\* lines 50-52, 59-60
DeriveRatio(cet1, rwa, cet1_ratio_model) ==
    IF Derivable(cet1, rwa) THEN RDiv(cet1, rwa) ELSE cet1_ratio_model

DiscrepancyWarnings_RatioOnly(cet1, rwa, cet1_ratio_model) ==
    IF /\ Derivable(cet1, rwa)
       /\ cet1_ratio_model # None
       /\ DiffersBy1e6(cet1_ratio_model, RDiv(cet1, rwa))
    THEN <<DISCREPANCY_WARNING>> ELSE <<>>

\* lines 51-58
DiscrepancyWarnings(cet1, rwa, cet1_ratio_model) ==
    IF /\ Derivable(cet1, rwa)
       /\ cet1_ratio_model # None
       /\ DiffersBy1e6(cet1_ratio_model, cet1)
       /\ DiffersBy1e6(cet1_ratio_model, RDiv(cet1, rwa))
    THEN <<DISCREPANCY_WARNING>> ELSE <<>>

BelowMinimum_Inclusive(cet1_ratio) ==
    cet1_ratio # None /\ ~RLess(MIN_CET1_RATIO, cet1_ratio)

\* line 62
BelowMinimum(cet1_ratio) == cet1_ratio # None /\ RLess(cet1_ratio, MIN_CET1_RATIO)

\* lines 62-66
ThresholdWarnings(cet1_ratio) ==
    IF BelowMinimum(cet1_ratio) THEN <<ThresholdWarning(cet1_ratio)>> ELSE <<>>

\* lines 68-80: every entry is appended, in order
RulesUsed(rules_used_raw) ==
    LET v == Get(rules_used_raw)
    IN  IF ~Truthy(v) THEN <<>>
        ELSE IF v.t = "list" THEN [i \in 1..Len(v.l) |-> str_chars(v.l[i])]
        ELSE <<str_chars(v)>>

\* the loop `for e in entries: if e not in acc: acc.append(e)`
RECURSIVE AppendNew(_, _)
AppendNew(acc, entries) ==
    IF entries = <<>> THEN acc
    ELSE AppendNew(IF Head(entries) \in Range(acc) THEN acc
                   ELSE Append(acc, Head(entries)),
                   Tail(entries))

\* lines 84-87 and 91-94: append str(entry) unless already in the list
MergeModelEntries(acc, entries) ==
    AppendNew(acc, [i \in 1..Len(entries) |-> str(entries[i])])

\* lines 82-83, 89-90: `initial.get(key) or []`, used only when it is a list
ModelList(v) == IF Truthy(Get(v)) /\ v.t = "list" THEN v.l ELSE <<>>

validate_corep_result(initial) ==
    LET cet1 == _to_optional_float(initial.CET1)
        at1 == _to_optional_float(initial.AT1)
        tier2 == _to_optional_float(initial.Tier2)
        rwa == _to_optional_float(initial.RWA)
        cet1_ratio_model == _to_optional_float(initial.CET1_ratio)
        cet1_ratio == DeriveRatio(cet1, rwa, cet1_ratio_model)
    IN  [template_name |-> TemplateName(initial),
         CET1 |-> cet1,
         AT1 |-> at1,
         Tier2 |-> tier2,
         RWA |-> rwa,
         CET1_ratio |-> cet1_ratio,
         missing_fields |->
             MergeModelEntries(DeterministicMissing(cet1, at1, tier2, rwa),
                               ModelList(initial.missing_fields)),
         validation_warnings |->
             MergeModelEntries(DiscrepancyWarnings(cet1, rwa, cet1_ratio_model)
                                   \o ThresholdWarnings(cet1_ratio),
                               ModelList(initial.validation_warnings)),
         rules_used |-> RulesUsed(initial.rules_used),
         explanation |-> Explanation(initial)]

(***************************************************************************)
(* rag.py: the citation merge at the end of generate_corep_assessment      *)
(***************************************************************************)
\* code points of the characters that occur in the model's strings
Ascii == <<" ", "%", "-", ".", "0", "1", "2", "3", "4", "5", "6", "7", "8", "9",
           "A", "B", "F", "N", "T", "a", "c", "e", "h", "i", "l", "n", "o", "r",
           "s", "t", "u", "x", "y">>

Ord(c) == CHOOSE i \in 1..Len(Ascii) : Ascii[i] = c

\* a < b for Python str
RECURSIVE StrLess(_, _)
StrLess(a, b) ==
    IF b = <<>> THEN FALSE
    ELSE IF a = <<>> THEN TRUE
    ELSE IF Head(a) = Head(b) THEN StrLess(Tail(a), Tail(b))
    ELSE Ord(Head(a)) < Ord(Head(b))

\* sorted(S) for a set of str
RECURSIVE sorted(_)
sorted(S) ==
    IF S = {} THEN <<>>
    ELSE LET m == CHOOSE x \in S : \A y \in S \ {x} : StrLess(x, y)
         IN  <<m>> \o sorted(S \ {m})

MergeCitations_RetrievalOrder(rules_used, docs) ==
    AppendNew(rules_used, [i \in 1..Len(docs) |-> docs[i].citation])

\* lines 279-282
MergeCitations(rules_used, docs) ==
    LET citations_from_docs == {docs[i].citation : i \in 1..Len(docs)}
    IN  AppendNew(rules_used, sorted(citations_from_docs))

(***************************************************************************)
(* rag.py: _call_llm._parse_json.  A completion is a sequence over         *)
(*   "{" "}"   the braces                                                  *)
(*   "k"       a quoted key with its colon                                 *)
(*   "1"       a digit                                                     *)
(*   ","       the member separator                                        *)
(*   "p"       a character of prose, which no JSON value contains          *)
(* and json.loads accepts   value  ::= "1"+ | "{" "}" | "{" members "}"    *)
(*                          members ::= "k" value ( "," "k" value )*       *)
(***************************************************************************)
RECURSIVE EndOfDigits(_, _)
EndOfDigits(text, i) ==
    IF i <= Len(text) /\ text[i] = "1" THEN EndOfDigits(text, i + 1) ELSE i

\* index just past the value that starts at i, or 0 when there is none
RECURSIVE EndOfValue(_, _), EndOfMembers(_, _)
EndOfValue(text, i) ==
    IF i > Len(text) THEN 0
    ELSE IF text[i] = "1" THEN EndOfDigits(text, i)
    ELSE IF text[i] = "{" THEN
        IF i + 1 <= Len(text) /\ text[i + 1] = "}" THEN i + 2
        ELSE EndOfMembers(text, i + 1)
    ELSE 0

EndOfMembers(text, i) ==
    IF i > Len(text) \/ text[i] # "k" THEN 0
    ELSE LET j == EndOfValue(text, i + 1)
         IN  IF j = 0 \/ j > Len(text) THEN 0
             ELSE IF text[j] = "," THEN EndOfMembers(text, j + 1)
             ELSE IF text[j] = "}" THEN j + 1
             ELSE 0

\* json.loads(text) raises JSONDecodeError
JSONDecodeError(text) == EndOfValue(text, 1) # Len(text) + 1

\* json.loads(text) when it does not raise: a dict or an int
json_loads(text) ==
    [kind |-> IF Head(text) = "{" THEN "dict" ELSE "int", src |-> text]

\* str.find / str.rfind, 0-based, -1 when the character does not occur
find(text, c) ==
    IF \E i \in 1..Len(text) : text[i] = c
    THEN (CHOOSE i \in 1..Len(text) :
              text[i] = c /\ \A j \in 1..(i - 1) : text[j] # c) - 1
    ELSE -1

rfind(text, c) ==
    IF \E i \in 1..Len(text) : text[i] = c
    THEN (CHOOSE i \in 1..Len(text) :
              text[i] = c /\ \A j \in (i + 1)..Len(text) : text[j] # c) - 1
    ELSE -1

NoValue == [kind |-> "", src |-> <<>>]

Returned(v) == [raised |-> "", doc |-> <<>>, value |-> v]

\* an uncaught json.JSONDecodeError; doc is the text the decoder was given
Raised(doc) == [raised |-> "JSONDecodeError", doc |-> doc, value |-> NoValue]

\* lines 235-244
_parse_json(text) ==
    IF ~JSONDecodeError(text) THEN Returned(json_loads(text))
    ELSE LET start == find(text, "{")
             end == rfind(text, "}")
         IN  IF start # -1 /\ end # -1 /\ end > start
             THEN LET snippet == SubSeq(text, start + 1, end + 1)
                  IN  IF ~JSONDecodeError(snippet) THEN Returned(json_loads(snippet))
                      ELSE Raised(snippet)
             ELSE Raised(text)

(***************************************************************************)
(* Inputs.                                                                 *)
(***************************************************************************)
SeqUpTo(S, n) == UNION {[1..k -> S] : k \in 0..n}

Alphabet == {"1", "5", ".", "%", " ", "-", "x"}

CoerceInputs ==
    {Absent, Null, Bool(TRUE), Bool(FALSE), List, Object,
     Num(0, 1), Num(-3, 2), Num(12, 1)}
        \cup {Str(s) : s \in SeqUpTo(Alphabet, MaxStrLen)}

\* values of the list-valued keys: [t, b, s, l]
LAbsent == [t |-> "absent", b |-> FALSE, s |-> "", l |-> <<>>]
LNull == [t |-> "null", b |-> FALSE, s |-> "", l |-> <<>>]
LStr(s) == [t |-> "str", b |-> FALSE, s |-> s, l |-> <<>>]
LList(l) == [t |-> "list", b |-> FALSE, s |-> "", l |-> l]

\* rules_used entries are compared with citations, whose characters the
\* merge sorts on: their str payload is a character sequence
CNull == [t |-> "null", b |-> FALSE, s |-> <<>>]
CAbsent == [t |-> "absent", b |-> FALSE, s |-> <<>>, l |-> <<>>]
CList(l) == [t |-> "list", b |-> FALSE, s |-> <<>>, l |-> l]

RuleItems == {TStr(<<"a">>), TStr(<<"B">>), CNull}
MissingItems == {TStr("CET1"), TStr("X"), TNull}
WarningItems == {TStr(DISCREPANCY_WARNING), TStr(ThresholdWarning(Rat(3, 100))), TStr("w")}

RulesValues ==
    {CAbsent, LStr(<<"a">>)} \cup {CList(l) : l \in SeqUpTo(RuleItems, MaxList)}
MissingValues ==
    {LAbsent, LStr("CET1")} \cup {LList(l) : l \in SeqUpTo(MissingItems, MaxList)}
WarningValues ==
    {LNull} \cup {LList(l) : l \in SeqUpTo(WarningItems, MaxList)}

Raw(template, expl, cet1, at1, tier2, rwa, ratio, missing, warnings, rules) ==
    [template_name |-> template, explanation |-> expl,
     CET1 |-> cet1, AT1 |-> at1, Tier2 |-> tier2, RWA |-> rwa, CET1_ratio |-> ratio,
     missing_fields |-> missing, validation_warnings |-> warnings, rules_used |-> rules]

CET1Values ==
    {Absent, Num(300, 1), Num(450, 1), Num(1, 1), Bool(TRUE), Str(<<"x">>)}
RWAValues ==
    {Absent, Num(0, 1), Num(-2, 1), Num(10000, 1), Num(2, 1), Str(<<"2", "%">>), List}
RatioValues ==
    {Absent, Num(3, 100), Num(45, 1000), Num(1, 1), Num(1, 2), Str(<<"x">>),
     Num(1000001, 2000000), Num(250001, 500000)}

\* the numeric keys vary
NumericRaws ==
    {Raw(TStr("C 01.00"), TStr("ok"), c, a, t, r, m, mf, w, CAbsent) :
        c \in CET1Values,
        a \in {Num(50, 1), Null, Bool(FALSE)},
        t \in {Num(80, 1), Str(<<"x">>), Object},
        r \in RWAValues,
        m \in RatioValues,
        mf \in {LAbsent, LList(<<TStr("RWA"), TStr("X")>>)},
        w \in {LAbsent, LList(<<TStr(DISCREPANCY_WARNING)>>),
               LList(<<TStr(ThresholdWarning(Rat(3, 100)))>>)}}

NumericCases ==
    {<<Num(300, 1), Num(10000, 1), Num(1, 2)>>, <<Absent, Absent, Absent>>}

ListCases ==
    {<<ru, LAbsent, LAbsent>> : ru \in RulesValues}
        \cup {<<CAbsent, mf, LAbsent>> : mf \in MissingValues}
        \cup {<<CAbsent, LAbsent, w>> : w \in WarningValues}
        \cup {<<CList(<<TStr(<<"a">>), TStr(<<"a">>)>>),
                LList(<<TStr("X"), TStr("X")>>),
                LList(<<TStr("w"), TStr("w")>>)>>}

\* the model-declared lists vary
ListRaws ==
    {Raw(TAbsent, TAbsent, n[1], Num(50, 1), Num(80, 1), n[2], n[3], l[2], l[3], l[1]) :
        n \in NumericCases, l \in ListCases}

\* the text keys vary
TextRaws ==
    {Raw(tn, ex, Num(300, 1), Num(50, 1), Num(80, 1), Num(5000, 1), Absent,
         LAbsent, LAbsent, CAbsent) :
        tn \in {TAbsent, TNull, TStr(""), TStr("C 01.00"), TBool(TRUE), TBool(FALSE)},
        ex \in {TAbsent, TNull, TStr(""), TStr("ok"), TBool(FALSE)}}

RawInputs == NumericRaws \cup ListRaws \cup TextRaws

Citations == {<<"B">>, <<"a">>, <<"B", "a">>}

\* lines 263-270: ids are the ordinals "0", "1", ... in return order
RetrievedDocs(cs) ==
    [i \in 1..Len(cs) |-> [id |-> ToString(i - 1), citation |-> cs[i]]]

RetrievedInputs == {RetrievedDocs(cs) : cs \in SeqUpTo(Citations, MaxDocs)}

(***************************************************************************)
(* Specifications.  Variables a specification does not use stay Idle.      *)
(***************************************************************************)
Idle == <<>>

\* --- _to_optional_float applied to one value ---
InitCoerce ==
    /\ pc = "coerce"
    /\ value \in CoerceInputs
    /\ coerced = Idle
    /\ content = Idle /\ parsed = Idle
    /\ retrieved = Idle /\ retrieved_docs = Idle /\ context_text = Idle
    /\ raw_model_output = Idle /\ reconciled = Idle /\ corep_result = Idle
    /\ stages = <<>> /\ response = Idle /\ handed = 0
    /\ store = 0 /\ inv = Idle

Coerce ==
    /\ pc = "coerce"
    /\ UNCHANGED storeVars
    /\ coerced' = _to_optional_float(value)
    /\ pc' = "coerced"
    /\ UNCHANGED <<value, content, parsed, retrieved, retrieved_docs, context_text,
                   raw_model_output, reconciled, corep_result, stages, response,
                   handed>>

NextCoerce == Coerce

SpecCoerce == InitCoerce /\ [][NextCoerce]_vars

\* --- validate_corep_result followed by the citation merge ---
InitValidate ==
    /\ pc = "validate"
    /\ raw_model_output \in RawInputs
    /\ retrieved = Idle /\ retrieved_docs = <<>> /\ context_text = Idle
    /\ reconciled = Idle /\ corep_result = Idle
    /\ value = Idle /\ coerced = Idle /\ content = Idle /\ parsed = Idle
    /\ stages = <<>> /\ response = Idle /\ handed = 0
    /\ store = 0 /\ inv = Idle

Validate ==
    /\ pc = "validate"
    /\ UNCHANGED storeVars
    /\ reconciled' = validate_corep_result(raw_model_output)
    /\ corep_result' = reconciled'
    /\ pc' = "merge"
    /\ UNCHANGED <<value, coerced, content, parsed, retrieved, retrieved_docs,
                   context_text, raw_model_output, stages, response, handed>>

Merge ==
    /\ pc = "merge"
    /\ UNCHANGED storeVars
    /\ \E docs \in RetrievedInputs :
        /\ retrieved_docs' = docs
        /\ corep_result' =
               [corep_result EXCEPT !.rules_used = MergeCitations(@, docs)]
    /\ pc' = "done"
    /\ UNCHANGED <<value, coerced, content, parsed, retrieved, context_text,
                   raw_model_output, reconciled, stages, response, handed>>

NextValidate == Validate \/ Merge

SpecValidate == InitValidate /\ [][NextValidate]_vars

\* --- _parse_json applied to one completion text ---
JsonAlphabet == {"{", "}", "k", "1", ",", "p"}

InitParse ==
    /\ pc = "parse"
    /\ content \in SeqUpTo(JsonAlphabet, MaxText)
    /\ parsed = Idle
    /\ value = Idle /\ coerced = Idle
    /\ retrieved = Idle /\ retrieved_docs = Idle /\ context_text = Idle
    /\ raw_model_output = Idle /\ reconciled = Idle /\ corep_result = Idle
    /\ stages = <<>> /\ response = Idle /\ handed = 0
    /\ store = 0 /\ inv = Idle

ParseJson ==
    /\ pc = "parse"
    /\ UNCHANGED storeVars
    /\ parsed' = _parse_json(content)
    /\ pc' = "parsed"
    /\ UNCHANGED <<value, coerced, content, retrieved, retrieved_docs, context_text,
                   raw_model_output, reconciled, corep_result, stages, response,
                   handed>>

NextParse == ParseJson

SpecParse == InitParse /\ [][NextParse]_vars

\* --- one request through analyze_scenario and generate_corep_assessment ---
\* a Document of the vector store: its citation metadata may be missing
Document(has, citation) == [has_citation |-> has, citation |-> citation]

Documents ==
    {Document(TRUE, <<"B">>), Document(TRUE, <<"a">>), Document(FALSE, <<>>)}

CompletionInputs ==
    {<<"{", "k", "1", "}">>, <<"p", "{", "k", "1", "}", "p">>, <<"{", "}">>,
     <<"1">>, <<"p">>, <<"p", "{", "p", "}">>, <<"}", "{">>, <<>>}

EmptyRaw ==
    Raw(TAbsent, TAbsent, Absent, Absent, Absent, Absent, Absent,
        LAbsent, LAbsent, CAbsent)

\* the key/value pairs the members of a completion stand for
MemberInputs ==
    {Raw(TStr("C 01.00"), TStr("ok"), Num(300, 1), Num(50, 1), Num(80, 1),
         Num(5000, 1), Num(6, 100), LList(<<>>), LList(<<>>), CList(<<>>)),
     Raw(TAbsent, TStr(""), Num(300, 1), Null, Bool(TRUE), Num(10000, 1), Num(1, 2),
         LAbsent, LList(<<TStr("w")>>), CList(<<TStr(<<"a">>), TStr(<<"a">>)>>)),
     Raw(TAbsent, TAbsent, Absent, Absent, Absent, Num(0, 1), Absent,
         LList(<<TStr("X")>>), LAbsent, CList(<<TStr(<<"B">>)>>))}

\* the object json.loads returned, decoded: a mapping, or an int
Decode(v, fields) ==
    IF v.kind = "dict" THEN (IF "k" \in Range(v.src) THEN fields ELSE EmptyRaw)
    ELSE Num(DigitsToInt(v.src), 1)

\* a decoded value that has .get
IsMapping(v) == "t" \notin DOMAIN v

StageOrder == <<"retrieval", "assembly", "invocation", "reconciliation", "merge">>

\* main.py lines 55-60
AnalyzeResponse(docs, result, raw) ==
    [status |-> 200, retrieved_context |-> docs, corep_result |-> result,
     raw_model_output |-> raw]

HTTPException_BestGuess(docs, result, raw) ==
    [status |-> 200, retrieved_context |-> docs, corep_result |-> result,
     raw_model_output |-> raw]

\* main.py lines 61-68: whatever the locals hold, the caller gets HTTP 500
HTTPException(docs, result, raw) ==
    [status |-> 500, retrieved_context |-> <<>>, corep_result |-> None,
     raw_model_output |-> None]

Init ==
    /\ pc = "retrieve"
    /\ value = Idle /\ coerced = Idle
    /\ content = Idle /\ parsed = Idle
    /\ retrieved = Idle /\ retrieved_docs = <<>> /\ context_text = Idle
    /\ raw_model_output = Idle /\ reconciled = Idle /\ corep_result = None
    /\ stages = <<>> /\ response = Idle /\ handed = 0
    /\ store = 0 /\ inv = Idle

\* an exception leaves generate_corep_assessment and reaches the except
\* clause of analyze_scenario
Fail ==
    /\ response' = HTTPException(retrieved_docs, corep_result, raw_model_output)
    /\ handed' = handed + 1
    /\ pc' = "failed"

\* rag.py lines 250-252, the vector store or the retriever raises
RetrieveFails ==
    /\ pc = "retrieve"
    /\ UNCHANGED storeVars
    /\ Fail
    /\ UNCHANGED <<value, coerced, content, parsed, retrieved, retrieved_docs,
                   context_text, raw_model_output, reconciled, corep_result, stages>>

\* rag.py lines 250-252
Retrieve ==
    /\ pc = "retrieve"
    /\ UNCHANGED storeVars
    /\ retrieved' \in SeqUpTo(Documents, MaxDocs)
    /\ stages' = Append(stages, "retrieval")
    /\ pc' = "assemble"
    /\ UNCHANGED <<value, coerced, content, parsed, retrieved_docs, context_text,
                   raw_model_output, reconciled, corep_result, response, handed>>

\* line 260: metadata.get("citation", f"synthetic-{idx}")
CitationOf(doc, idx) ==
    IF doc.has_citation THEN doc.citation
    ELSE <<"s", "y", "n", "t", "h", "e", "t", "i", "c", "-", ToString(idx)>>

\* lines 254-270
BuildRetrievedDocs(docs) ==
    [i \in 1..Len(docs) |->
        [id |-> ToString(i - 1), citation |-> CitationOf(docs[i], i - 1)]]

\* lines 272-274: the chunks "[citation] ..." joined by the delimiter
RECURSIVE JoinChunks(_)
JoinChunks(docs) ==
    IF docs = <<>> THEN <<>>
    ELSE <<"[">> \o docs[1].citation \o <<"]">>
             \o (IF Len(docs) = 1 THEN <<>> ELSE <<"---">> \o JoinChunks(Tail(docs)))

\* rag.py lines 254-274
Assemble ==
    /\ pc = "assemble"
    /\ UNCHANGED storeVars
    /\ retrieved_docs' = BuildRetrievedDocs(retrieved)
    /\ context_text' = JoinChunks(retrieved_docs')
    /\ stages' = Append(stages, "assembly")
    /\ pc' = "invoke"
    /\ UNCHANGED <<value, coerced, content, parsed, retrieved, raw_model_output,
                   reconciled, corep_result, response, handed>>

\* rag.py lines 205-232, the provider is misconfigured or chain.invoke raises
CallLLMFails ==
    /\ pc = "invoke"
    /\ UNCHANGED storeVars
    /\ Fail
    /\ UNCHANGED <<value, coerced, content, parsed, retrieved, retrieved_docs,
                   context_text, raw_model_output, reconciled, corep_result, stages>>

\* rag.py lines 232-246 and 276
CallLLM ==
    /\ pc = "invoke"
    /\ UNCHANGED storeVars
    /\ \E text \in CompletionInputs, fields \in MemberInputs :
        /\ content' = text
        /\ parsed' = _parse_json(text)
        /\ IF parsed'.raised # ""
           THEN /\ Fail
                /\ UNCHANGED <<raw_model_output, stages>>
           ELSE /\ raw_model_output' = Decode(parsed'.value, fields)
                /\ stages' = Append(stages, "invocation")
                /\ pc' = "reconcile"
                /\ UNCHANGED <<response, handed>>
    /\ UNCHANGED <<value, coerced, retrieved, retrieved_docs, context_text,
                   reconciled, corep_result>>

\* rag.py line 277; initial.get on a value that is not a mapping raises
\* AttributeError
Reconcile ==
    /\ pc = "reconcile"
    /\ UNCHANGED storeVars
    /\ IF IsMapping(raw_model_output)
       THEN /\ reconciled' = validate_corep_result(raw_model_output)
            /\ corep_result' = reconciled'
            /\ stages' = Append(stages, "reconciliation")
            /\ pc' = "merge_citations"
            /\ UNCHANGED <<response, handed>>
       ELSE /\ Fail
            /\ UNCHANGED <<reconciled, corep_result, stages>>
    /\ UNCHANGED <<value, coerced, content, parsed, retrieved, retrieved_docs,
                   context_text, raw_model_output>>

\* rag.py lines 279-282
MergeRetrieved ==
    /\ pc = "merge_citations"
    /\ UNCHANGED storeVars
    /\ corep_result' =
           [corep_result EXCEPT !.rules_used = MergeCitations(@, retrieved_docs)]
    /\ stages' = Append(stages, "merge")
    /\ pc' = "return"
    /\ UNCHANGED <<value, coerced, content, parsed, retrieved, retrieved_docs,
                   context_text, raw_model_output, reconciled, response, handed>>

\* rag.py line 284 and main.py lines 55-60
Respond ==
    /\ pc = "return"
    /\ UNCHANGED storeVars
    /\ response' = AnalyzeResponse(retrieved_docs, corep_result, raw_model_output)
    /\ handed' = handed + 1
    /\ pc' = "responded"
    /\ UNCHANGED <<value, coerced, content, parsed, retrieved, retrieved_docs,
                   context_text, raw_model_output, reconciled, corep_result, stages>>

Next ==
    \/ RetrieveFails \/ Retrieve \/ Assemble \/ CallLLMFails \/ CallLLM
    \/ Reconcile \/ MergeRetrieved \/ Respond

Spec == Init /\ [][Next]_vars

(***************************************************************************)
(* Properties of _to_optional_float (SpecCoerce).                          *)
(***************************************************************************)
\* The coercion the specification describes for a str: strip whitespace,
\* drop one trailing "%", then parse; None when empty or not a number.
CoerceSingleTrailingPercent(s) ==
    LET t == strip(s)
        u == IF t # <<>> /\ t[Len(t)] = "%" THEN SubSeq(t, 1, Len(t) - 1) ELSE t
    IN  IF u = <<>> \/ float(u) = ValueError THEN None ELSE float(u)

\* C7: for every str input the result is the parse of the stripped text
\* with at most one "%" removed, and only when it is the last character;
\* None when that text is empty or not a decimal number.
C7_StringCoercion ==
    (pc = "coerced" /\ value.t = "str")
        => coerced = CoerceSingleTrailingPercent(value.s)

(***************************************************************************)
(* Properties of validate_corep_result and the citation merge              *)
(* (SpecValidate).                                                         *)
(***************************************************************************)
Validated == pc \in {"merge", "done"}

NoDuplicates(q) == \A i, j \in 1..Len(q) : q[i] = q[j] => i = j

Declared(v) == {str(e) : e \in Range(ModelList(v))}

\* C1: when CET1 coerces to a number and RWA to a number > 0, the returned
\* CET1_ratio is CET1 / RWA whatever ratio the model proposed.
C1_RatioAuthority ==
    Validated =>
        LET c == _to_optional_float(raw_model_output.CET1)
            r == _to_optional_float(raw_model_output.RWA)
        IN  (c # None /\ r # None /\ r[1] > 0)
                => /\ corep_result.CET1_ratio # None
                   /\ corep_result.CET1_ratio[1] * r[1] * c[2]
                          = c[1] * r[2] * corep_result.CET1_ratio[2]

C1_Witness ==
    /\ Validated
    /\ raw_model_output.CET1 = Num(300, 1)
    /\ raw_model_output.RWA = Num(10000, 1)
    /\ raw_model_output.CET1_ratio = Num(1, 2)
    /\ corep_result.CET1_ratio = <<3, 100>>

\* C2: the result of reconciliation followed by the citation merge has no
\* string twice in missing_fields, validation_warnings or rules_used.
C2_NoDuplicates ==
    pc = "done" =>
        /\ NoDuplicates(corep_result.missing_fields)
        /\ NoDuplicates(corep_result.validation_warnings)
        /\ NoDuplicates(corep_result.rules_used)

\* C3: a boolean, list or nested object supplied for CET1, AT1, Tier2 or
\* RWA coerces to None, is reported in missing_fields and is never used in
\* the ratio.
C3_NonNumericCoerceToNone ==
    Validated =>
        \A f \in {"CET1", "AT1", "Tier2", "RWA"} :
            raw_model_output[f].t \in {"bool", "list", "dict"}
                => /\ reconciled[f] = None
                   /\ f \in Range(reconciled.missing_fields)
                   /\ f \in {"CET1", "RWA"} =>
                          reconciled.CET1_ratio
                              = _to_optional_float(raw_model_output.CET1_ratio)

\* every ratio the inputs can produce: a proposal, or a quotient of two amounts
RatioUniverse ==
    LET amounts == {v.n : v \in {x \in CET1Values \cup RWAValues \cup {Num(5000, 1)} :
                                    x.t \in {"number", "bool"}}} \cup {<<2, 1>>}
        proposals == {v.n : v \in {x \in RatioValues : x.t = "number"}}
    IN  proposals \cup {Rat(c[1] * r[2], c[2] * r[1]) :
                            c \in amounts, r \in {y \in amounts : y[1] # 0}}

ThresholdTexts == {ThresholdWarning(x) : x \in RatioUniverse}

\* C4: unless the model itself declared a threshold warning text, the
\* result carries the threshold warning exactly when the final CET1_ratio
\* is present and strictly below 0.045; exactly 0.045 or no ratio gives none.
C4_ThresholdRule ==
    (Validated /\ Declared(raw_model_output.validation_warnings) \cap ThresholdTexts = {})
        => LET x == corep_result.CET1_ratio
               w == Range(corep_result.validation_warnings)
           IN  /\ (w \cap ThresholdTexts # {}) <=> (x # None /\ 1000 * x[1] < 45 * x[2])
               /\ (w \cap ThresholdTexts # {}) => ThresholdWarning(x) \in w

C4_Witness ==
    /\ Validated
    /\ raw_model_output.CET1 = Num(450, 1)
    /\ raw_model_output.RWA = Num(10000, 1)
    /\ corep_result.CET1_ratio = <<9, 200>>
    /\ corep_result.validation_warnings = <<>>

\* C5: missing_fields starts with the names among CET1, AT1, Tier2, RWA
\* whose coerced value is None, in that order, followed only by
\* model-declared names not already listed; a zero or negative RWA is
\* present and is not added by the deterministic step.
C5_MissingFields ==
    Validated =>
        LET IsMissing(f) == _to_optional_float(raw_model_output[f]) = None
            det == SelectSeq(<<"CET1", "AT1", "Tier2", "RWA">>, IsMissing)
            mf == corep_result.missing_fields
            declared == Declared(raw_model_output.missing_fields)
        IN  /\ Len(mf) >= Len(det)
            /\ SubSeq(mf, 1, Len(det)) = det
            /\ \A i \in (Len(det) + 1)..Len(mf) :
                   /\ mf[i] \in declared
                   /\ \A j \in 1..(i - 1) : mf[j] # mf[i]
            /\ (raw_model_output.RWA.t = "number" /\ "RWA" \notin declared)
                   => "RWA" \notin Range(mf)

C5_Witness ==
    /\ Validated
    /\ raw_model_output.RWA = Num(-2, 1)
    /\ raw_model_output.AT1 = Null
    /\ raw_model_output.Tier2 = Str(<<"x">>)
    /\ raw_model_output.CET1 = Num(300, 1)
    /\ raw_model_output.missing_fields = LAbsent
    /\ corep_result.missing_fields = <<"AT1", "Tier2">>

\* C6: when RWA is absent, zero or negative after coercion, or CET1 is
\* absent, the returned CET1_ratio is the coerced model-proposed ratio
\* (None when there is none) and no discrepancy warning is added.
C6_PassThrough ==
    Validated =>
        LET c == _to_optional_float(raw_model_output.CET1)
            r == _to_optional_float(raw_model_output.RWA)
        IN  (c = None \/ r = None \/ r[1] <= 0)
                => /\ corep_result.CET1_ratio
                          = _to_optional_float(raw_model_output.CET1_ratio)
                   /\ DISCREPANCY_WARNING \in Range(corep_result.validation_warnings)
                          => DISCREPANCY_WARNING
                                 \in Declared(raw_model_output.validation_warnings)

C6_Witness ==
    /\ Validated
    /\ raw_model_output.CET1 = Num(300, 1)
    /\ raw_model_output.RWA = Num(-2, 1)
    /\ raw_model_output.CET1_ratio = Num(1, 2)
    /\ corep_result.CET1_ratio = <<1, 2>>
    /\ corep_result.validation_warnings = <<>>

\* C8: the result has a non-empty template_name and a non-empty
\* explanation; an explanation that is absent, null or the empty string is
\* replaced by the fixed placeholder.
C8_NonEmptyText ==
    Validated =>
        /\ corep_result.template_name # ""
        /\ corep_result.explanation # ""
        /\ raw_model_output.explanation \in {TAbsent, TNull, TStr("")}
               => corep_result.explanation = EXPLANATION_PLACEHOLDER

(***************************************************************************)
(* Properties of _parse_json (SpecParse).                                  *)
(***************************************************************************)
\* the parse of the whole text, else of the text from the first "{" to the
\* last "}", else nothing
TwoTierValue(text) ==
    LET opens == {i \in 1..Len(text) : text[i] = "{"}
        closes == {i \in 1..Len(text) : text[i] = "}"}
        first == CHOOSE i \in opens : \A j \in opens : i <= j
        last == CHOOSE i \in closes : \A j \in closes : j <= i
    IN  IF ~JSONDecodeError(text) THEN json_loads(text)
        ELSE IF opens # {} /\ closes # {} /\ first < last
                    /\ ~JSONDecodeError(SubSeq(text, first, last))
             THEN json_loads(SubSeq(text, first, last))
        ELSE NoValue

\* C9: the invoker returns the parse of the whole completion when that
\* succeeds, otherwise the parse of the text from the first "{" to the last
\* "}" when that succeeds, and otherwise fails with an error that carries
\* the raw completion text and produces no mapping.
C9_TwoTierParse ==
    pc = "parsed" =>
        IF TwoTierValue(content) # NoValue
        THEN parsed.raised = "" /\ parsed.value = TwoTierValue(content)
        ELSE parsed.raised # "" /\ parsed.doc = content /\ parsed.value = NoValue

(***************************************************************************)
(* Properties of the pipeline (Spec).                                      *)
(***************************************************************************)
CorepResultFields ==
    {"template_name", "CET1", "AT1", "Tier2", "RWA", "CET1_ratio", "missing_fields",
     "validation_warnings", "rules_used", "explanation"}

\* C10: the stages run in the order retrieval, context assembly, model
\* invocation, reconciliation, citation merge; the caller is answered at
\* most once, with a CorepResult only after all five stages, and with a
\* failure carrying no result when retrieval fails, the model call fails,
\* the completion cannot be parsed or the parsed value is not a mapping.
C10_AllOrNothing ==
    /\ stages = SubSeq(StageOrder, 1, Len(stages))
    /\ handed <= 1
    /\ handed = 1 <=> pc \in {"responded", "failed"}
    /\ handed = 1 =>
           IF response.status = 200
           THEN /\ pc = "responded"
                /\ stages = StageOrder
                /\ DOMAIN response.corep_result = CorepResultFields
                /\ response.corep_result = corep_result
                /\ parsed.raised = ""
                /\ IsMapping(raw_model_output)
           ELSE /\ pc = "failed"
                /\ response.status = 500
                /\ response.corep_result = None
                /\ stages # StageOrder
    /\ (pc \notin {"retrieve", "assemble", "invoke"} /\ Len(stages) = 2)
           => pc = "failed"
    /\ (pc # "reconcile" /\ Len(stages) = 3) => (pc = "failed" /\ ~IsMapping(raw_model_output))

C10_Witness ==
    /\ pc = "failed"
    /\ stages = <<"retrieval", "assembly", "invocation">>
    /\ ~IsMapping(raw_model_output)
    /\ retrieved_docs # <<>>
    /\ response.status = 500

(***************************************************************************)
(* Properties of the citation merge (SpecValidate).                        *)
(***************************************************************************)
\* a comes strictly before b in lexicographic order of code points
LexBefore(a, b) ==
    \E k \in 1..(Len(b)) :
        /\ k <= Len(a) + 1
        /\ \A i \in 1..(k - 1) : a[i] = b[i]
        /\ k = Len(a) + 1 \/ Ord(a[k]) < Ord(b[k])

\* C11: the final rules_used is the reconciled rules_used in its order,
\* followed by exactly the retrieved citations not already in it, each
\* once, in lexicographic order; nothing is removed or reordered, and the
\* list is unchanged when every retrieved citation was already present.
C11_AuditMergeOrder ==
    pc = "done" =>
        LET old == reconciled.rules_used
            new == corep_result.rules_used
            cits == {retrieved_docs[i].citation : i \in 1..Len(retrieved_docs)}
            added == SubSeq(new, Len(old) + 1, Len(new))
        IN  /\ Len(new) >= Len(old)
            /\ SubSeq(new, 1, Len(old)) = old
            /\ Range(added) = cits \ Range(old)
            /\ \A i, j \in 1..Len(added) : i < j => LexBefore(added[i], added[j])
            /\ cits \subseteq Range(old) => new = old

C11_Witness ==
    /\ pc = "done"
    /\ reconciled.rules_used = <<<<"a">>>>
    /\ Len(retrieved_docs) = 2
    /\ retrieved_docs[1].citation = <<"B", "a">>
    /\ retrieved_docs[2].citation = <<"B">>
    /\ corep_result.rules_used = <<<<"a">>, <<"B">>, <<"B", "a">>>>

(***************************************************************************)
(* Properties of the discrepancy warning (SpecValidate).                   *)
(***************************************************************************)
\* x > 1/1000000 for a rational x >= 0 in lowest terms; a numerator above
\* 2147 already exceeds any 32-bit denominator divided by a million
MoreThanMillionth(x) == x[1] > 2147 \/ x[1] * 1000000 > x[2]

\* |a - b| > 1e-6
FartherThanMillionth(a, b) ==
    LET d == RSub(a, b)
    IN  MoreThanMillionth(IF d[1] < 0 THEN <<-d[1], d[2]>> ELSE d)

\* C12: unless the model itself declared the discrepancy text, the result
\* carries the discrepancy warning exactly when CET1 is present, RWA is
\* present and > 0, the model proposed a ratio that coerces to a number,
\* and the proposal is more than 1e-6 away from CET1 and more than 1e-6
\* away from CET1/RWA; a proposal within 1e-6 of the CET1 amount raises
\* none, however far it is from CET1/RWA.
C12_DiscrepancyWarning ==
    (/\ Validated
     /\ DISCREPANCY_WARNING \notin Declared(raw_model_output.validation_warnings))
        => LET c == _to_optional_float(raw_model_output.CET1)
               r == _to_optional_float(raw_model_output.RWA)
               m == _to_optional_float(raw_model_output.CET1_ratio)
           IN  DISCREPANCY_WARNING \in Range(corep_result.validation_warnings)
                   <=> /\ c # None /\ r # None /\ m # None
                       /\ r[1] > 0
                       /\ FartherThanMillionth(m, c)
                       /\ FartherThanMillionth(m, Rat(c[1] * r[2], c[2] * r[1]))

C12_Witness ==
    /\ Validated
    /\ raw_model_output.CET1 = Num(1, 1)
    /\ raw_model_output.RWA = Num(2, 1)
    /\ raw_model_output.CET1_ratio = Num(1, 1)
    /\ raw_model_output.validation_warnings = LAbsent
    /\ corep_result.CET1_ratio = <<1, 2>>
    /\ corep_result.validation_warnings = <<>>

\* the same amounts with a proposal 2e-6 away from CET1/RWA are flagged
C12_Flagged ==
    /\ Validated
    /\ raw_model_output.CET1 = Num(1, 1)
    /\ raw_model_output.RWA = Num(2, 1)
    /\ raw_model_output.CET1_ratio = Num(250001, 500000)
    /\ raw_model_output.validation_warnings = LAbsent
    /\ corep_result.validation_warnings = <<DISCREPANCY_WARNING>>

(***************************************************************************)
(* rag.py: _get_vector_store and the retrieval of generate_corep_assessment *)
(* run by several requests at once.  analyze_scenario is a plain `def`     *)
(* endpoint, which the server runs on worker threads; every invocation     *)
(* opens the same persisted collection "corep_own_funds_rules".            *)
(***************************************************************************)
\* number of documents _build_seed_corpus returns
SeedSize == 4

\* default top_k of generate_corep_assessment
TopK == 4

Invocations == 1..NumInvocations

requestVars == <<pc, value, coerced, content, parsed, retrieved, retrieved_docs,
                 context_text, raw_model_output, reconciled, corep_result, stages,
                 response, handed>>

Locals(at, count, raised, distinct) ==
    [pc |-> at, count |-> count, raised |-> raised, distinct |-> distinct]

InitStore ==
    /\ pc = "serve"
    /\ store \in {0, SeedSize}
    /\ inv = [i \in Invocations |-> Locals("count", 0, FALSE, 0)]
    /\ value = Idle /\ coerced = Idle /\ content = Idle /\ parsed = Idle
    /\ retrieved = Idle /\ retrieved_docs = Idle /\ context_text = Idle
    /\ raw_model_output = Idle /\ reconciled = Idle /\ corep_result = Idle
    /\ stages = <<>> /\ response = Idle /\ handed = 0

\* lines 129-130
CountStore(i) ==
    /\ inv[i].pc = "count"
    /\ inv' = [inv EXCEPT ![i].count = store, ![i].pc = "seed"]
    /\ UNCHANGED store
    /\ UNCHANGED requestVars

\* lines 131-132: any exception of count() reads as an empty collection
CountRaises(i) ==
    /\ inv[i].pc = "count"
    /\ inv' = [inv EXCEPT ![i].count = 0, ![i].raised = TRUE, ![i].pc = "seed"]
    /\ UNCHANGED store
    /\ UNCHANGED requestVars

\* the collection after add_documents(docs): every document gets a fresh id
add_documents(collection, n) == collection + n

\* lines 134-139
SeedIfEmpty(i) ==
    /\ inv[i].pc = "seed"
    /\ store' = IF inv[i].count = 0 THEN add_documents(store, SeedSize) ELSE store
    /\ inv' = [inv EXCEPT ![i].pc = "query"]
    /\ UNCHANGED requestVars

\* the top k of a ranking in which the copies of a document tie: the number
\* of different seed documents among them
DistinctInTopK(collection, k) ==
    LET copies == collection \div SeedSize
        perDoc == IF copies = 0 THEN 1 ELSE copies
        need == (k + perDoc - 1) \div perDoc
    IN  IF copies = 0 THEN 0
        ELSE IF need < SeedSize THEN need ELSE SeedSize

\* lines 251-252
Query(i) ==
    /\ inv[i].pc = "query"
    /\ inv' = [inv EXCEPT ![i].distinct = DistinctInTopK(store, TopK),
                          ![i].pc = "done"]
    /\ UNCHANGED store
    /\ UNCHANGED requestVars

NextStore ==
    \E i \in Invocations :
        CountStore(i) \/ CountRaises(i) \/ SeedIfEmpty(i) \/ Query(i)

SpecStore == InitStore /\ [][NextStore]_vars

(***************************************************************************)
(* Properties of concurrent invocations (SpecStore).                       *)
(***************************************************************************)
\* C13: concurrent invocations share no state: under every interleaving
\* the store holds what some sequential execution leaves in it, never the
\* seed corpus more than once, and every invocation retrieves what it
\* would retrieve when run alone.
C13_Isolation ==
    (\A i \in Invocations : ~inv[i].raised)
        => /\ store <= SeedSize
           /\ \A i \in Invocations :
                  inv[i].pc = "done" => inv[i].distinct = SeedSize
====
